---- MODULE Spec2Model ----
(***************************************************************************)
(* Process lifecycle supervisor of the desktop shell (src-tauri):          *)
(*   main.rs      exit-requested handler, CLOSING flag, cleanup task       *)
(*   commands.rs  start / stop / get-port / status commands over the       *)
(*                shared PythonServer handle behind one tokio Mutex        *)
(*   logger.rs    the rotating error log                                   *)
(* Spec is the supervisor; DrainSpec looks at the stdout drain with the    *)
(* text of the lines and the emitted events; StatusSpec is the supervisor  *)
(* with setup's start only and the status command; LogSpec is the log sink.*)
(* StartSpec runs start and stop in every build (development or packaged,  *)
(* data directory resolvable or not; the other specifications run the      *)
(* development build); SweepSpec runs getPort with two workers listening.  *)
(* FairSpec is Spec under the fairness of the tokio runtime and the event  *)
(* loop; LogSpec has several tasks logging at once.                        *)
(* An Option<T> of the source is modelled as a set: {} is None, {x} is     *)
(* Some(x).                                                                *)
(***************************************************************************)
EXTENDS Integers, Sequences, FiniteSets, TLC

\* ---- bounds of the model ------------------------------------------------
MaxCmds == 1
MaxTriggers == 2
MaxLines == 2
MaxLineLen == 3
MaxWrites == 3
MaxTicks == 2
MaxLoggers == 2
TicksPerSecond == 2

\* ---- program constants --------------------------------------------------
SweepLo == 5000
SweepHi == 5100
U16Max == 65535
DefaultPort == 5000
MAX_LOG_BACKUP_COUNT == 5
CleanupPeriod == 10

\* Ports a worker may choose: one outside the sweep range, two inside it.
Ports == {4321, 5000, 5001}

\* The ports the workers of a supervisor run choose between: one outside
\* the sweep range, one inside it.
RunPorts == {4321, 5000}

VARIABLES
    windows,    \* build target: TRUE for cfg(target_os = "windows")
    build,      \* build profile and the platform's answer to app_data_dir()
    server,     \* the PythonServer handle guarded by the mutex
    lock,       \* holder of the tokio mutex: {} when free
    task,       \* command / cleanup tasks: kind, position, locals, result
    worker,     \* spawned worker processes with their stdout pipe and drain
    CLOSING,    \* static CLOSING: AtomicBool
    host,       \* "running" | "exited"
    exitCalls,  \* exit(0) calls whose exit-requested event is not delivered yet
    started,    \* cleanup tasks spawned by the exit-requested handler
    text,       \* the stdout line the worker is writing
    eol,        \* that line: "open", "ended" by its newline, or "read" by the drain
    nlines,     \* stdout lines read so far
    events,     \* flask-port-ready events emitted so far, in order
    parsed,     \* ports the drain has parsed so far, in order
    hint,       \* content of port.txt in the app data directory: {} when unreadable
    files,      \* the log directory: rust_error.log and its numbered backups
    logpc,      \* per logging task: its position in log_error
    entry,      \* per logging task: size of the entry it writes
    rotated,    \* per logging task: needs_rotation of its write
    logLock,    \* holder of the LOG_FILE mutex: {} when free
    denied,     \* files the last cleanup scan was not allowed to remove
    now,        \* wall clock, in ticks of 1/TicksPerSecond s
    writes      \* log writes started so far

supVars == <<windows, build, server, lock, task, worker, CLOSING, host, exitCalls, started>>
drainVars == <<text, eol, nlines, events, parsed>>
logVars == <<files, logpc, entry, rotated, logLock, denied, now, writes>>
otherVars == <<drainVars, hint, logVars>>
vars == <<supVars, otherVars>>

\* ---- data ---------------------------------------------------------------
\* The builds: development or packaged, on a platform whose data directory
\* resolves or does not.
Builds == [dev : BOOLEAN, dataDir : BOOLEAN]

DevBuild == [dev |-> TRUE, dataDir |-> TRUE]

PythonServerNew == [process |-> {}, port |-> {}, pid |-> {}]

Cmds == 0..MaxCmds
CleanupTask(k) == MaxCmds + k
Tasks == 0..(MaxCmds + MaxTriggers)

IdleTask ==
    [kind |-> "none", pc |-> "idle", loc |-> PythonServerNew, http |-> "none",
     did |-> {}, ret |-> "none", res |-> {}, after |-> {}, order |-> <<>>]

ApiResponse(ok, d, e) == [success |-> ok, data |-> d, error |-> e]

\* The parse without the 16-bit range of the target type.
ParsePort_Wide(line) == IF line.marker /\ line.num >= 0 THEN {line.num} ELSE {}

\* trimmed.contains(MARKER), split, first token, parse::<u16>()
ParsePort(line) ==
    IF line.marker /\ line.num >= 0 /\ line.num <= U16Max THEN {line.num} ELSE {}

\* One worker at most per start invocation.
WorkerIds == 1..(MaxCmds + 1)
StdoutLines == [marker : BOOLEAN, num : Ports \cup {0}]
Workers == 1..Len(worker)
Live == {w \in Workers : worker[w].alive}
MarkersEmitted == UNION {worker[w].seen : w \in Workers}

\* No stdout text, event or log file is recorded.
DrainQuiet ==
    text = <<>> /\ eol = "open" /\ nlines = 0 /\ events = <<>> /\ parsed = <<>>

\* File 0 is rust_error.log, file i is rust_error.log.i; a name one above the
\* backup count is there to be looked at.
FileIds == 0..(MAX_LOG_BACKUP_COUNT + 1)

NoFiles == [i \in FileIds |-> {}]

Loggers == 1..MaxLoggers

LogQuiet ==
    /\ files = NoFiles
    /\ logpc = [w \in Loggers |-> "idle"]
    /\ entry = [w \in Loggers |-> 0]
    /\ rotated = [w \in Loggers |-> FALSE]
    /\ logLock = {}
    /\ denied = {}
    /\ now = 0
    /\ writes = 0

Init ==
    /\ DrainQuiet
    /\ hint = {}
    /\ LogQuiet
    /\ windows \in BOOLEAN
    /\ build = DevBuild
    /\ server = PythonServerNew
    /\ lock = {}
    /\ task = [t \in Tasks |->
                 IF t = 0 THEN [IdleTask EXCEPT !.kind = "start", !.pc = "start_lock"]
                 ELSE IdleTask]
    /\ worker = <<>>
    /\ CLOSING = FALSE
    /\ host = "running"
    /\ exitCalls = 0
    /\ started = 0

\* ---- command invocation by the presentation layer ------------------------
\* A command slot is free until its command is invoked; slots are used in
\* order. A command has no effect before its first lock().await returns, so
\* the invocation is folded into that step.
Free(t) ==
    /\ t \in 1..MaxCmds
    /\ task[t].pc = "idle"
    /\ task[t - 1].pc # "idle"

Invoked(t, k) == [IdleTask EXCEPT !.kind = k, !.after = MarkersEmitted]

\* The task at the first lock().await of command k: freshly invoked, or
\* already placed there by its caller.
AtEntry(t, k, pc) ==
    \/ Free(t)
    \/ task[t].pc = pc /\ (k = "stop" \/ task[t].kind = k)

Entered(t, k) == IF task[t].pc = "idle" THEN Invoked(t, k) ELSE task[t]

\* ---- the tokio mutex ---------------------------------------------------------
\* A lock().await that returns whoever holds the guard.
LockFree_NoWait == TRUE

\* lock().await returns only while nobody holds the guard.
LockFree == lock = {}

\* ---- start_python_server --------------------------------------------------
\* lock().await, then the restart check: a handle marked running makes start
\* call stop_python_server while its own guard is still held.
StartLock(t) ==
    /\ host = "running"
    /\ AtEntry(t, "start", "start_lock")
    /\ LockFree
    /\ lock' = {t}
    /\ task' = [task EXCEPT ![t] = [Entered(t, "start") EXCEPT !.pc =
                  IF server.process # {} THEN "stop_lock" ELSE "start_spawn"]]
    /\ UNCHANGED <<windows, build, server, worker, CLOSING, host, exitCalls, started, otherVars>>

\* The failing paths of start: create_dir_all on the data directory fails,
\* the packaged executable (resource directory, sidecar) is not found, or
\* process creation fails.
StartFailures == {"dir_fail", "no_exe", "spawn_fail"}

StartError(outcome) ==
    CASE outcome = "dir_fail" -> "Failed to create app data directory"
      [] outcome = "no_exe" -> "Cannot find embedded Python server executable"
      [] outcome = "spawn_fail" -> "Failed to start Python server"

\* A failing path that reports success.
StartFailed_Success(outcome) ==
    ApiResponse(TRUE, {"Python Flask server started successfully"}, {})

\* The envelope a failing path returns.
StartFailed(outcome) == ApiResponse(FALSE, {}, {StartError(outcome)})

\* db_path: Some(<data dir>/chat.db) when app_data_dir() resolves, else None.
DbPath(b) == IF b.dataDir THEN {"chat.db"} ELSE {}

\* The environment variables start sets on the command, in development
\* (debug_assertions) and in packaged mode: DB_PATH only if db_path is Some.
CommandEnv(b) ==
    (IF b.dev THEN {"LOG_LEVEL_DEBUG", "FLASK_ENV"} ELSE {})
       \cup (IF DbPath(b) # {} THEN {"DB_PATH"} ELSE {})

NewWorker(p) ==
    [alive |-> TRUE, port |-> p, seen |-> {}, dpc |-> "recv", dport |-> {},
     env |-> CommandEnv(build)]

\* What a successful spawn records in the handle: the child handle on the
\* shell-plugin path, only the pid on the native windows path.
RecordSpawn(s, w) ==
    IF windows THEN [s EXCEPT !.pid = {w}] ELSE [s EXCEPT !.process = {w}]

\* Storage directory, command resolution and spawn run without an await
\* while the guard is held; the guard is dropped when start returns.
StartSpawn(t, outcome, p) ==
    /\ host = "running"
    /\ task[t].kind = "start"
    /\ task[t].pc = "start_spawn"
    /\ lock = {t}
    /\ outcome = "dir_fail" => build.dataDir
    /\ outcome = "no_exe" => ~build.dev
    /\ IF outcome \in StartFailures
       THEN /\ task' = [task EXCEPT ![t].pc = "done",
                           ![t].res = {StartFailed(outcome)}]
            /\ UNCHANGED <<server, worker>>
       ELSE /\ p \notin {worker[w].port : w \in Live}
            /\ worker' = Append(worker, NewWorker(p))
            /\ server' = RecordSpawn(server, Len(worker) + 1)
            /\ task' = [task EXCEPT ![t].pc = "done",
                           ![t].res = {ApiResponse(TRUE,
                                         {"Python Flask server started successfully"}, {})}]
    /\ lock' = {}
    /\ UNCHANGED <<windows, build, CLOSING, host, exitCalls, started, otherVars>>

\* ---- stop_python_server_internal ------------------------------------------
\* server.process.take(): the handle afterwards.
TakeProcess_Peek(s) == s

TakeProcess(s) == [s EXCEPT !.process = {}]

\* The port the graceful shutdown request is sent to, if any.
ShutdownTarget_Default(port) == IF port = {} THEN {SweepLo} ELSE port

ShutdownTarget(port) == port

StopLock(t) ==
    /\ host = "running"
    /\ AtEntry(t, "stop", "stop_lock")
    /\ LockFree
    /\ lock' = {t}
    /\ server' = TakeProcess(server)
    /\ task' = [task EXCEPT ![t] = [Entered(t, "stop") EXCEPT !.loc = server,
                   !.pc = IF ShutdownTarget(server.port) # {}
                          THEN "stop_post" ELSE "stop_clear"]]
    /\ UNCHANGED <<windows, build, worker, CLOSING, host, exitCalls, started, otherVars>>

HttpOutcomes == {"ok_json", "ok_body", "status", "error"}

Listening(p) == {w \in Live : {worker[w].port} = p}

\* POST /api/stop with the 10 s timeout. A worker that answers with a success
\* status terminates itself.
StopPost(t, outcome) ==
    /\ host = "running"
    /\ task[t].pc = "stop_post"
    /\ lock = {t}
    /\ LET tgt == ShutdownTarget(task[t].loc.port)
       IN /\ (Listening(tgt) = {} => outcome = "error")
          /\ worker' = [w \in Workers |->
                          IF w \in Listening(tgt) /\ outcome \in {"ok_json", "ok_body"}
                          THEN [worker[w] EXCEPT !.alive = FALSE]
                          ELSE worker[w]]
    /\ task' = [task EXCEPT ![t].http = outcome,
                   ![t].did = @ \cup {"post"},
                   ![t].pc = "stop_clear"]
    /\ UNCHANGED <<windows, build, server, lock, CLOSING, host, exitCalls, started, otherVars>>

ClearState(s) == [s EXCEPT !.port = {}, !.pid = {}]

\* The primitive's return value after a shutdown call that ended as http.
StopInternalResult_ErrOnFailure(http) ==
    IF http \in {"status", "error"} THEN "Err" ELSE "Ok"

StopInternalResult(http) == "Ok"

\* stop_python_server: the envelope built from the primitive's result.
StopEnvelope(r) ==
    IF r = "Ok" THEN ApiResponse(TRUE, {"Python server stopped"}, {})
    ELSE ApiResponse(FALSE, {}, {"stop failed"})

\* Clears port and pid and returns; the guard is dropped on return. The
\* caller continues: the stop command, start's restart path or the cleanup task.
StopClear(t) ==
    /\ host = "running"
    /\ task[t].pc = "stop_clear"
    /\ lock = {t}
    /\ server' = ClearState(server)
    /\ LET r == StopInternalResult(task[t].http)
       IN CASE task[t].kind = "stop" ->
                 /\ task' = [task EXCEPT ![t].pc = "done", ![t].ret = r,
                                ![t].res = {StopEnvelope(r)}]
                 /\ lock' = {}
            [] task[t].kind = "start" ->
                 /\ task' = [task EXCEPT ![t].pc = "start_spawn", ![t].ret = r]
                 /\ lock' = {t}
            [] task[t].kind = "exit" ->
                 /\ task' = [task EXCEPT ![t].pc = "exit_call", ![t].ret = r]
                 /\ lock' = {}
    /\ UNCHANGED <<windows, build, worker, CLOSING, host, exitCalls, started, otherVars>>

\* ---- get_flask_port ---------------------------------------------------------
PortKnown(port) == ApiResponse(TRUE, port, {})

PortUnknown ==
    ApiResponse(FALSE, {}, {"Cannot get port number, server may not be started"})

\* First look at the stored port; the guard is dropped before the 500 ms sleep.
GetPortCheck1(t) ==
    /\ host = "running"
    /\ Free(t)
    /\ LockFree
    /\ task' = [task EXCEPT ![t] =
                  IF server.port # {}
                  THEN [Invoked(t, "getPort") EXCEPT !.pc = "done",
                                                     !.res = {PortKnown(server.port)}]
                  ELSE [Invoked(t, "getPort") EXCEPT !.pc = "gp_check2"]]
    /\ UNCHANGED <<windows, build, server, lock, worker, CLOSING, host, exitCalls, started, otherVars>>

\* Second look after the sleep.
GetPortCheck2(t) ==
    /\ host = "running"
    /\ task[t].pc = "gp_check2"
    /\ LockFree
    /\ task' = [task EXCEPT ![t] =
                  IF server.port # {}
                  THEN [@ EXCEPT !.pc = "done", !.res = {PortKnown(server.port)}]
                  ELSE [@ EXCEPT !.pc = "gp_sweep"]]
    /\ UNCHANGED <<windows, build, server, lock, worker, CLOSING, host, exitCalls, started, otherVars>>

SweepRange == {p \in Ports : p >= SweepLo /\ p <= SweepHi}

\* Whether some probe of the sweep came back with a success status.
Answered(answered) == IF answered = {} THEN {} ELSE {"answered"}

\* A sweep that gives up whatever the probes said.
SweepResult_None(answered) == {}

\* The probe tasks are awaited in port order: the lowest answering port wins.
SweepResult(answered) ==
    IF answered = {} THEN {}
    ELSE {CHOOSE p \in answered : \A q \in answered : p <= q}

\* The orders in which the spawned probes can come back with a success
\* status: ports of the range, each at most once, earliest answer first.
AnswerOrders ==
    {o \in UNION {[1..m -> SweepRange] : m \in 0..Cardinality(SweepRange)} :
        \A i, j \in 1..Len(o) : o[i] = o[j] => i = j}

RangeOf(o) == {o[i] : i \in 1..Len(o)}

\* One health probe per port of the range, all running at once, 200 ms
\* timeout each; a probe of a live worker may still time out.
GetPortSweep(t, order) ==
    /\ host = "running"
    /\ task[t].pc = "gp_sweep"
    /\ order \in AnswerOrders
    /\ RangeOf(order) \subseteq {p \in SweepRange : Listening({p}) # {}}
    /\ LET answered == RangeOf(order)
       IN task' = [task EXCEPT ![t] =
                     IF SweepResult(answered) = {}
                     THEN [@ EXCEPT !.pc = "done", !.res = {PortUnknown},
                                    !.did = Answered(answered), !.order = order]
                     ELSE [@ EXCEPT !.pc = "gp_cache", !.loc.port = SweepResult(answered),
                                    !.did = Answered(answered), !.order = order]]
    /\ UNCHANGED <<windows, build, server, lock, worker, CLOSING, host, exitCalls, started, otherVars>>

\* The found port is cached into the handle under the lock and returned.
GetPortCache(t) ==
    /\ host = "running"
    /\ task[t].pc = "gp_cache"
    /\ LockFree
    /\ server' = [server EXCEPT !.port = task[t].loc.port]
    /\ task' = [task EXCEPT ![t].pc = "done", ![t].res = {PortKnown(task[t].loc.port)}]
    /\ UNCHANGED <<windows, build, lock, worker, CLOSING, host, exitCalls, started, otherVars>>

\* ---- the worker and its stdout drain ---------------------------------------
\* The lines a worker may print: its bootstrap marker with its port, or
\* any other line.
LinesOf(w) == {[marker |-> TRUE, num |-> worker[w].port], [marker |-> FALSE, num |-> 0]}

\* The worker prints a line and the drain receives and parses it; only a
\* parsed port makes the drain go for the lock.
DrainRecv(w, line) ==
    /\ host = "running"
    /\ w \in Workers
    /\ worker[w].dpc = "recv"
    /\ line \in LinesOf(w)
    /\ LET port == ParsePort(line)
       IN worker' = [worker EXCEPT ![w].seen = @ \cup port,
                     ![w].dport = port,
                     ![w].dpc = IF port # {} THEN "store" ELSE "recv"]
    /\ UNCHANGED <<windows, build, server, lock, task, CLOSING, host, exitCalls, started, otherVars>>

\* A store that keeps a port already known.
DrainWrite_KeepFirst(s, w) ==
    IF s.port # {} THEN s
    ELSE IF windows THEN [s EXCEPT !.port = worker[w].dport, !.pid = {w}]
    ELSE [s EXCEPT !.port = worker[w].dport]

\* What the drain writes into the handle under the lock.
DrainWrite(s, w) ==
    IF windows THEN [s EXCEPT !.port = worker[w].dport, !.pid = {w}]
    ELSE [s EXCEPT !.port = worker[w].dport]

DrainStore(w) ==
    /\ host = "running"
    /\ w \in Workers
    /\ worker[w].dpc = "store"
    /\ LockFree
    /\ server' = DrainWrite(server, w)
    /\ worker' = [worker EXCEPT ![w].dpc = "recv", ![w].dport = {}]
    /\ UNCHANGED <<windows, build, lock, task, CLOSING, host, exitCalls, started, otherVars>>

\* ---- shutdown coordination (main.rs) ----------------------------------------
\* on_window_event(CloseRequested): the handler body is empty and
\* prevent_close is not called, so the window just closes.
CloseRequested ==
    /\ host = "running"
    /\ UNCHANGED vars

\* CLOSING.swap(true, SeqCst): the value the flag holds afterwards.
ClosingSwap_Load(old) == old

ClosingSwap(old) == TRUE

\* The worker processes once the host has exited. Children spawned through
\* the shell plugin are killed by the plugin at exit; the natively spawned
\* windows child is not. The drains end with the host.
AtHostExit(ws) ==
    [w \in DOMAIN ws |->
        [ws[w] EXCEPT !.alive = IF windows THEN @ ELSE FALSE,
                      !.seen = {}, !.dpc = "recv", !.dport = {}]]

\* RunEvent::ExitRequested, raised by the runtime ("env") or by exit(0)
\* ("exit_call"). A handler that finds the flag set returns without
\* prevent_exit, so the runtime goes on to exit and the host's tasks and
\* memory are gone; the first one defers the exit and spawns the cleanup task.
ExitRequested(src) ==
    /\ host = "running"
    /\ src = "exit_call" => exitCalls > 0
    /\ CLOSING' = ClosingSwap(CLOSING)
    /\ IF CLOSING
       THEN /\ host' = "exited"
            /\ worker' = AtHostExit(worker)
            /\ task' = [t \in Tasks |-> IdleTask]
            /\ server' = PythonServerNew
            /\ lock' = {}
            /\ exitCalls' = 0
            /\ UNCHANGED started
       ELSE /\ started < MaxTriggers
            /\ started' = started + 1
            /\ task' = [task EXCEPT ![CleanupTask(started + 1)] =
                          [IdleTask EXCEPT !.kind = "exit", !.pc = "stop_lock"]]
            /\ exitCalls' = IF src = "exit_call" THEN exitCalls - 1 ELSE exitCalls
            /\ UNCHANGED <<host, worker, server, lock>>
    /\ UNCHANGED <<windows, build, otherVars>>

\* The cleanup task: after stop has returned, app_handle.exit(0).
CleanupExit(t) ==
    /\ host = "running"
    /\ task[t].kind = "exit"
    /\ task[t].pc = "exit_call"
    /\ exitCalls' = exitCalls + 1
    /\ task' = [task EXCEPT ![t].pc = "done"]
    /\ UNCHANGED <<windows, build, server, lock, worker, CLOSING, host, started, otherVars>>

\* ---- specification -------------------------------------------------------------
Next ==
    \/ \E t \in Tasks : StartLock(t)
    \/ \E t \in Tasks, o \in StartFailures \cup {"ok"}, p \in RunPorts : StartSpawn(t, o, p)
    \/ \E t \in Tasks : StopLock(t)
    \/ \E t \in Tasks, o \in HttpOutcomes : StopPost(t, o)
    \/ \E t \in Tasks : StopClear(t)
    \/ \E t \in Tasks : GetPortCheck1(t)
    \/ \E t \in Tasks : GetPortCheck2(t)
    \/ \E t \in Tasks, o \in AnswerOrders : GetPortSweep(t, o)
    \/ \E t \in Tasks : GetPortCache(t)
    \/ \E w \in WorkerIds, l \in StdoutLines : DrainRecv(w, l)
    \/ \E w \in WorkerIds : DrainStore(w)
    \/ CloseRequested
    \/ \E src \in {"env", "exit_call"} : ExitRequested(src)
    \/ \E t \in Tasks : CleanupExit(t)

Spec == Init /\ [][Next]_vars

\* ---- check_python_server_status (StatusSpec) --------------------------------
\* The content of port.txt: unreadable ({}), or text that stands for a
\* number (-1 for text that is not a number).
HintValues == {{}, {0 - 1}, {4321}, {5001}, {U16Max + 1}}

\* port_str.trim().parse::<u16>()
ParseHint(h) == {n \in h : n >= 0 /\ n <= U16Max}

\* The port probed: the stored one, else the hint, else the default.
StatusTarget_NoHint(port, h) == IF port # {} THEN port ELSE {DefaultPort}

StatusTarget(port, h) ==
    IF port # {} THEN port
    ELSE IF ParseHint(h) # {} THEN ParseHint(h)
    ELSE {DefaultPort}

ProbeOutcomes == {"ok", "status", "error"}

Unreachable == ApiResponse(FALSE, {FALSE}, {"Cannot connect to server"})
UnhealthyResponse == ApiResponse(FALSE, {FALSE}, {"Server response error"})
Reachable == ApiResponse(TRUE, {TRUE}, {})

StatusResult(outcome) ==
    CASE outcome = "ok" -> Reachable
      [] outcome = "status" -> UnhealthyResponse
      [] outcome = "error" -> Unreachable

\* lock().await and the port resolution; port.txt is read only when the
\* stored port is unknown. The guard is kept for the probe.
StatusLock(t, h) ==
    /\ host = "running"
    /\ Free(t)
    /\ LockFree
    /\ lock' = {t}
    /\ hint' = IF server.port = {} THEN h ELSE hint
    /\ task' = [task EXCEPT ![t] =
                  [Invoked(t, "status") EXCEPT !.pc = "st_probe", !.loc = server,
                      !.loc.port = StatusTarget(server.port,
                                                IF server.port = {} THEN h ELSE hint)]]
    /\ UNCHANGED <<windows, build, server, worker, CLOSING, host, exitCalls, started,
                   drainVars, logVars>>

\* GET /api/health with the 3 s timeout, and the envelope; the guard is
\* dropped on return.
StatusProbe(t, outcome) ==
    /\ host = "running"
    /\ task[t].pc = "st_probe"
    /\ lock = {t}
    /\ (Listening(task[t].loc.port) = {} => outcome = "error")
    /\ task' = [task EXCEPT ![t].pc = "done", ![t].http = outcome,
                   ![t].res = {StatusResult(outcome)}]
    /\ lock' = {}
    /\ UNCHANGED <<windows, build, server, worker, CLOSING, host, exitCalls, started, otherVars>>

\* The supervisor with setup's start only (no restart) and the status command.
StatusNext ==
    \/ StartLock(0)
    \/ \E o \in StartFailures \cup {"ok"}, p \in Ports : StartSpawn(0, o, p)
    \/ \E t \in Tasks : StopLock(t)
    \/ \E t \in Tasks, o \in HttpOutcomes : StopPost(t, o)
    \/ \E t \in Tasks : StopClear(t)
    \/ \E t \in Tasks : GetPortCheck1(t)
    \/ \E t \in Tasks : GetPortCheck2(t)
    \/ \E t \in Tasks, o \in AnswerOrders : GetPortSweep(t, o)
    \/ \E t \in Tasks : GetPortCache(t)
    \/ \E t \in Tasks, h \in HintValues : StatusLock(t, h)
    \/ \E t \in Tasks, o \in ProbeOutcomes : StatusProbe(t, o)
    \/ \E w \in WorkerIds, l \in StdoutLines : DrainRecv(w, l)
    \/ \E w \in WorkerIds : DrainStore(w)
    \/ \E src \in {"env", "exit_call"} : ExitRequested(src)
    \/ \E t \in Tasks : CleanupExit(t)

StatusSpec == Init /\ [][StatusNext]_vars

\* ---- the stdout drain with the text of the lines (DrainSpec) -----------------
\* A line is a sequence of pieces: the marker "FLASK_PORT:", a whitespace
\* character, a run of decimal digits (by its value) or a run of other
\* characters. Two digit runs are never adjacent: they would be one run.
Mk == [k |-> "marker", v |-> 0]
Ws == [k |-> "space", v |-> 0]
Tx == [k |-> "text", v |-> 0]
Num(n) == [k |-> "num", v |-> n]

NumValues == {4321, 5000, U16Max, U16Max + 1}
Pieces == {Mk, Ws, Tx} \cup {Num(n) : n \in NumValues}

SeqsUpTo(S, n) == UNION {[1..m -> S] : m \in 0..n}

TextLines ==
    {l \in SeqsUpTo(Pieces, MaxLineLen) :
        \A i \in 1..(Len(l) - 1) : ~(l[i].k = "num" /\ l[i + 1].k = "num")}

\* trimmed.contains("FLASK_PORT:")
Contains(l) == \E i \in 1..Len(l) : l[i] = Mk

MkAt(l) == {i \in 1..Len(l) : l[i] = Mk}

Least(S) == CHOOSE i \in S : \A j \in S : i <= j

\* trimmed.split("FLASK_PORT:").nth(1): the text between the first
\* occurrence of the marker and the next one (or the end of the line).
PortPart(l) ==
    LET first == Least(MkAt(l))
        later == {i \in MkAt(l) : i > first}
        last == IF later = {} THEN Len(l) ELSE Least(later) - 1
    IN SubSeq(l, first + 1, last)

\* port_part.split_whitespace().next().unwrap_or(port_part).trim()
FirstToken(part) ==
    LET solid == {i \in 1..Len(part) : part[i] # Ws}
    IN IF solid = {} THEN <<>>
       ELSE LET from == Least(solid)
                stops == {i \in 1..Len(part) : i > from /\ part[i] = Ws}
                to == IF stops = {} THEN Len(part) ELSE Least(stops) - 1
            IN SubSeq(part, from, to)

\* The number a token stands for; -1 when it is not a run of digits only.
TokenNum(tok) == IF Len(tok) = 1 /\ tok[1].k = "num" THEN tok[1].v ELSE 0 - 1

LineOf(l) ==
    [marker |-> Contains(l),
     num |-> IF Contains(l) THEN TokenNum(FirstToken(PortPart(l))) ELSE 0 - 1]

ParseText(l) == ParsePort(LineOf(l))

TheOne(S) == CHOOSE x \in S : TRUE

\* The events one parsed marker raises: flask-port-ready is emitted before
\* the port is stored, and on the shell-plugin path once more after it.
EmitBeforeStore(ev, port) == Append(ev, TheOne(port))

EmitAfterStore(ev, port) == IF windows THEN ev ELSE Append(ev, TheOne(port))

\* The worker writes one more piece of its current line to stdout; a line
\* the drain has read is gone from the pipe.
WorkerPrint(w, piece) ==
    /\ host = "running"
    /\ w \in Workers
    /\ nlines < MaxLines
    /\ eol # "ended"
    /\ LET line == IF eol = "read" THEN <<>> ELSE text
       IN /\ Len(line) < MaxLineLen
          /\ Append(line, piece) \in TextLines
          /\ text' = Append(line, piece)
    /\ eol' = "open"
    /\ UNCHANGED <<supVars, nlines, events, parsed, hint, logVars>>

\* The worker ends its line.
WorkerNewline(w) ==
    /\ host = "running"
    /\ w \in Workers
    /\ nlines < MaxLines
    /\ eol # "ended"
    /\ text' = IF eol = "read" THEN <<>> ELSE text
    /\ eol' = "ended"
    /\ UNCHANGED <<supVars, nlines, events, parsed, hint, logVars>>

\* The drain reads the complete line, parses it and, for a parsed port, emits
\* the event and goes for the lock.
DrainLine(w) ==
    /\ host = "running"
    /\ w \in Workers
    /\ worker[w].dpc = "recv"
    /\ eol = "ended"
    /\ eol' = "read"
    /\ nlines' = nlines + 1
    /\ LET port == ParseText(text)
       IN IF port # {}
          THEN /\ events' = EmitBeforeStore(events, port)
               /\ parsed' = Append(parsed, TheOne(port))
               /\ worker' = [worker EXCEPT ![w].seen = @ \cup port,
                                ![w].dport = port, ![w].dpc = "store"]
          ELSE UNCHANGED <<events, parsed, worker>>
    /\ UNCHANGED <<windows, build, server, lock, task, CLOSING, host, exitCalls, started,
                   text, hint, logVars>>

\* lock().await, the store, drop(server) and the emit that follows it.
DrainCommit(w) ==
    /\ host = "running"
    /\ w \in Workers
    /\ worker[w].dpc = "store"
    /\ LockFree
    /\ server' = DrainWrite(server, w)
    /\ events' = EmitAfterStore(events, worker[w].dport)
    /\ worker' = [worker EXCEPT ![w].dpc = "recv", ![w].dport = {}]
    /\ UNCHANGED <<windows, build, lock, task, CLOSING, host, exitCalls, started,
                   text, eol, nlines, parsed, hint, logVars>>

\* A worker has been spawned by setup's start; its stdout is any text.
DrainInit ==
    /\ DrainQuiet
    /\ hint = {}
    /\ LogQuiet
    /\ windows \in BOOLEAN
    /\ build = DevBuild
    /\ \E p \in Ports :
          /\ worker = <<NewWorker(p)>>
          /\ server = RecordSpawn(PythonServerNew, 1)
    /\ lock = {}
    /\ task = [t \in Tasks |->
                 IF t = 0
                 THEN [IdleTask EXCEPT !.kind = "start", !.pc = "done",
                          !.res = {ApiResponse(TRUE,
                                     {"Python Flask server started successfully"}, {})}]
                 ELSE IdleTask]
    /\ CLOSING = FALSE
    /\ host = "running"
    /\ exitCalls = 0
    /\ started = 0

DrainNext ==
    \/ \E w \in WorkerIds, c \in Pieces : WorkerPrint(w, c)
    \/ \E w \in WorkerIds : WorkerNewline(w)
    \/ \E w \in WorkerIds : DrainLine(w)
    \/ \E w \in WorkerIds : DrainCommit(w)

DrainSpec == DrainInit /\ [][DrainNext]_vars


\* ---- logger.rs (LogSpec) ------------------------------------------------------
Mega == 1024 * 1024
MAX_LOG_FILE_SIZE == 10 * Mega
MAX_TOTAL_LOG_SIZE == MAX_LOG_FILE_SIZE * MAX_LOG_BACKUP_COUNT

\* Bytes of one entry, "[timestamp] ERROR: message" and the newline.
EntrySizes == {4 * Mega, MAX_LOG_FILE_SIZE}

\* A file: its length, its modification time and the entries in it.
File(sz, mt, k) == [size |-> sz, mtime |-> mt, n |-> k]

Exists(fs, i) == fs[i] # {}
SizeOf(fs, i) == IF Exists(fs, i) THEN TheOne(fs[i]).size ELSE 0
MtimeOf(fs, i) == TheOne(fs[i]).mtime

\* std::fs::rename: the destination is replaced, the modification time kept.
Rename(fs, a, b) == [fs EXCEPT ![b] = fs[a], ![a] = {}]

Remove(fs, a) == [fs EXCEPT ![a] = {}]

\* A rotation that keeps every backup.
DropsOldest_Never(i) == FALSE

\* i >= MAX_LOG_BACKUP_COUNT: the backup that is removed instead of renamed.
DropsOldest(i) == i >= MAX_LOG_BACKUP_COUNT

\* A rotation that leaves the backups where they are.
RotateStep_NoShift(fs, i) == fs

\* One turn of the loop over the backups.
RotateStep(fs, i) ==
    IF Exists(fs, i)
    THEN IF DropsOldest(i) THEN Remove(fs, i) ELSE Rename(fs, i, i + 1)
    ELSE fs

\* for i in (1..=MAX_LOG_BACKUP_COUNT).rev()
RECURSIVE RotateFrom(_, _)
RotateFrom(fs, i) == IF i = 0 THEN fs ELSE RotateFrom(RotateStep(fs, i), i - 1)

rotate_log_file(fs) ==
    LET shifted == RotateFrom(fs, MAX_LOG_BACKUP_COUNT)
    IN IF Exists(shifted, 0) THEN Rename(shifted, 0, 1) ELSE shifted

needs_rotation(fs) == Exists(fs, 0) /\ SizeOf(fs, 0) >= MAX_LOG_FILE_SIZE

\* OpenOptions create + append, writeln, flush.
AppendEntry(fs, sz, t) ==
    [fs EXCEPT ![0] = IF Exists(fs, 0)
                      THEN {File(SizeOf(fs, 0) + sz, t, TheOne(fs[0]).n + 1)}
                      ELSE {File(sz, t, 1)}]

RECURSIVE TotalFrom(_, _)
TotalFrom(fs, i) == IF i < 0 THEN 0 ELSE SizeOf(fs, i) + TotalFrom(fs, i - 1)

\* Sum of the sizes of the files whose name starts with rust_error.log.
total_size(fs) == TotalFrom(fs, MAX_LOG_BACKUP_COUNT + 1)

\* Duration::as_secs: whole seconds, the fraction dropped.
as_secs(t) == t \div TicksPerSecond

\* A scan that takes the files in any order.
Oldest_Any(fs, left) == left

\* Of the files not visited yet, those that may come next in the list sorted
\* by modification time in seconds (files of one second come in any order).
Oldest(fs, left) ==
    {i \in left :
        \A j \in left : as_secs(MtimeOf(fs, i)) <= as_secs(MtimeOf(fs, j))}

\* The loop over the sorted list: it stops once the total is within the
\* limit; a file whose removal fails is passed over and stays counted. Every
\* directory that may result.
RECURSIVE RemoveOldest(_, _, _)
RemoveOldest(fs, deny, left) ==
    IF total_size(fs) <= MAX_TOTAL_LOG_SIZE \/ left = {} THEN {fs}
    ELSE UNION {RemoveOldest(IF i \in deny THEN fs ELSE Remove(fs, i), deny, left \ {i}) :
                   i \in Oldest(fs, left)}

cleanup_old_logs(fs, deny) ==
    IF total_size(fs) > MAX_TOTAL_LOG_SIZE
    THEN RemoveOldest(fs, deny, {i \in FileIds : Exists(fs, i)})
    ELSE {fs}

\* The files whose removal fails (held open by another program, say): none,
\* or every backup.
Denials == {{}, FileIds \ {0}}

\* A lock() that returns whoever holds the guard.
LogLockFree_NoWait == TRUE

\* LOG_FILE.lock() returns only while nobody holds the guard.
LogLockFree == logLock = {}

\* A task (a stderr drain, the stop command, the exit handler) calls
\* log_error and arrives at LOG_FILE.lock().
LogCall(w, sz) ==
    /\ logpc[w] = "idle"
    /\ writes < MaxWrites
    /\ writes' = writes + 1
    /\ entry' = [entry EXCEPT ![w] = sz]
    /\ logpc' = [logpc EXCEPT ![w] = "lock"]
    /\ UNCHANGED <<supVars, drainVars, hint, files, rotated, logLock, denied, now>>

\* The guard is taken; it is held until log_error returns.
LogLock(w) ==
    /\ logpc[w] = "lock"
    /\ LogLockFree
    /\ logLock' = {w}
    /\ logpc' = [logpc EXCEPT ![w] = "check"]
    /\ UNCHANGED <<supVars, drainVars, hint, files, entry, rotated, denied, now, writes>>

\* write_to_log_file, first part: the size check and the rotation.
LogCheck(w) ==
    /\ logpc[w] = "check"
    /\ rotated' = [rotated EXCEPT ![w] = needs_rotation(files)]
    /\ files' = IF needs_rotation(files) THEN rotate_log_file(files) ELSE files
    /\ logpc' = [logpc EXCEPT ![w] = "append"]
    /\ UNCHANGED <<supVars, drainVars, hint, entry, logLock, denied, now, writes>>

\* The entry is appended with the time of the write.
LogAppend(w) ==
    /\ logpc[w] = "append"
    /\ files' = AppendEntry(files, entry[w], now)
    /\ logpc' = [logpc EXCEPT ![w] = "sample"]
    /\ UNCHANGED <<supVars, drainVars, hint, entry, rotated, logLock, denied, now, writes>>

\* The cleanup runs when the second of the clock is a multiple of ten; then
\* log_error returns and the guard is dropped.
LogCleanup(w, deny) ==
    /\ logpc[w] = "sample"
    /\ LET scans == as_secs(now) % CleanupPeriod = 0
       IN /\ files' \in IF scans THEN cleanup_old_logs(files, deny) ELSE {files}
          /\ denied' = IF scans /\ total_size(files) > MAX_TOTAL_LOG_SIZE
                        THEN deny ELSE {}
    /\ logpc' = [logpc EXCEPT ![w] = "idle"]
    /\ entry' = [entry EXCEPT ![w] = 0]
    /\ rotated' = [rotated EXCEPT ![w] = FALSE]
    /\ logLock' = logLock \ {w}
    /\ UNCHANGED <<supVars, drainVars, hint, now, writes>>

\* The first tick of the second in which the cleanup is sampled.
BurstStart == CleanupPeriod * TicksPerSecond

Tick ==
    /\ now < BurstStart - 1 + MaxTicks
    /\ now' = now + 1
    /\ UNCHANGED <<supVars, drainVars, hint, files, logpc, entry, rotated, logLock,
                   denied, writes>>

\* The directory an earlier run has left: k backups, the higher the index
\* the older, and the active file absent, part full or at the ceiling.
EarlierRun(k, active) ==
    [i \in FileIds |->
        IF i = 0 THEN active
        ELSE IF i <= k THEN {File(MAX_LOG_FILE_SIZE, MAX_LOG_BACKUP_COUNT - i, 1)}
        ELSE {}]

Directories ==
    {EarlierRun(k, a) :
        k \in 0..MAX_LOG_BACKUP_COUNT,
        a \in {{}, {File(4 * Mega, MAX_LOG_BACKUP_COUNT, 1)},
                   {File(MAX_LOG_FILE_SIZE, MAX_LOG_BACKUP_COUNT, 1)}}}

\* The directory in the middle of a burst of entries: the backups below the
\* backup count and the active file, all filled within the second that has
\* just begun.
BurstRun ==
    [i \in FileIds |->
        IF i < MAX_LOG_BACKUP_COUNT THEN {File(MAX_LOG_FILE_SIZE, BurstStart, 1)} ELSE {}]

\* After init_logger, in the last tick before a second that is a multiple
\* of ten, or in that second in the middle of a burst; the supervisor is not
\* looked at.
LogInit ==
    /\ \/ /\ files \in {fs \in Directories : cleanup_old_logs(fs, {}) = {fs}}
          /\ now = BurstStart - 1
       \/ /\ files = BurstRun
          /\ now = BurstStart
    /\ logpc = [w \in Loggers |-> "idle"]
    /\ entry = [w \in Loggers |-> 0]
    /\ rotated = [w \in Loggers |-> FALSE]
    /\ logLock = {}
    /\ denied = {}
    /\ writes = 0
    /\ DrainQuiet
    /\ hint = {}
    /\ windows = FALSE
    /\ build = DevBuild
    /\ server = PythonServerNew
    /\ lock = {}
    /\ task = [t \in Tasks |-> IdleTask]
    /\ worker = <<>>
    /\ CLOSING = FALSE
    /\ host = "running"
    /\ exitCalls = 0
    /\ started = 0

LogNext ==
    \/ \E w \in Loggers, sz \in EntrySizes : LogCall(w, sz)
    \/ \E w \in Loggers : LogLock(w)
    \/ \E w \in Loggers : LogCheck(w)
    \/ \E w \in Loggers : LogAppend(w)
    \/ \E w \in Loggers, d \in Denials : LogCleanup(w, d)
    \/ Tick

LogSpec == LogInit /\ [][LogNext]_vars

\* ---- the supervisor under fair scheduling (FairSpec) ------------------------
\* A step of task t once it has been invoked or spawned: the tokio runtime
\* polls every task that can make progress, and the mutex hands the guard to
\* its waiters.
TaskStep(t) ==
    /\ task[t].pc # "idle"
    /\ \/ StartLock(t)
       \/ \E o \in StartFailures \cup {"ok"}, p \in RunPorts : StartSpawn(t, o, p)
       \/ StopLock(t)
       \/ \E o \in HttpOutcomes : StopPost(t, o)
       \/ StopClear(t)
       \/ GetPortCheck2(t)
       \/ \E o \in AnswerOrders : GetPortSweep(t, o)
       \/ GetPortCache(t)
       \/ CleanupExit(t)

\* The event loop delivers the exit-requested event that exit(0) raised, and
\* a drain that has parsed a port gets the lock. What the environment does
\* (commands invoked, lines printed, exit requested) is under no obligation.
FairSpec ==
    /\ Spec
    /\ \A t \in Tasks : WF_vars(TaskStep(t))
    /\ WF_vars(ExitRequested("exit_call"))
    /\ WF_vars(\E w \in WorkerIds : DrainStore(w))

\* ---- start in every build (StartSpec) --------------------------------------
\* Setup's start and the commands start and stop, in development and packaged
\* builds, with and without a resolvable data directory.
StartInit ==
    /\ DrainQuiet
    /\ hint = {}
    /\ LogQuiet
    /\ windows \in BOOLEAN
    /\ build \in Builds
    /\ server = PythonServerNew
    /\ lock = {}
    /\ task = [t \in Tasks |->
                 IF t = 0 THEN [IdleTask EXCEPT !.kind = "start", !.pc = "start_lock"]
                 ELSE IdleTask]
    /\ worker = <<>>
    /\ CLOSING = FALSE
    /\ host = "running"
    /\ exitCalls = 0
    /\ started = 0

StartNext ==
    \/ \E t \in Tasks : StartLock(t)
    \/ \E t \in Tasks, o \in StartFailures \cup {"ok"}, p \in Ports : StartSpawn(t, o, p)
    \/ \E t \in Tasks : StopLock(t)
    \/ \E t \in Tasks, o \in HttpOutcomes : StopPost(t, o)
    \/ \E t \in Tasks : StopClear(t)
    \/ \E w \in WorkerIds, l \in StdoutLines : DrainRecv(w, l)
    \/ \E w \in WorkerIds : DrainStore(w)

StartSpec == StartInit /\ [][StartNext]_vars

\* ---- getPort's sweep with several listeners (SweepSpec) -------------------
\* A stop has returned, the handle is empty and two workers of earlier starts
\* still run, their markers not printed yet: stop never kills and sends no
\* shutdown request while the port is unknown, so such a worker outlives its
\* stop, and the next start does not see it. No start follows; the
\* presentation layer issues getPort and stop.
SweepInit ==
    /\ DrainQuiet
    /\ hint = {}
    /\ LogQuiet
    /\ windows \in BOOLEAN
    /\ build = DevBuild
    /\ server = PythonServerNew
    /\ lock = {}
    /\ task = [t \in Tasks |->
                 IF t = 0 THEN [IdleTask EXCEPT !.kind = "stop", !.pc = "done",
                                   !.ret = StopInternalResult("error"),
                                   !.res = {StopEnvelope(StopInternalResult("error"))}]
                 ELSE IdleTask]
    /\ \E p, q \in Ports :
          /\ p # q
          /\ worker = <<NewWorker(p), NewWorker(q)>>
    /\ CLOSING = FALSE
    /\ host = "running"
    /\ exitCalls = 0
    /\ started = 0

SweepNext ==
    \/ \E t \in Tasks : GetPortCheck1(t)
    \/ \E t \in Tasks : GetPortCheck2(t)
    \/ \E t \in Tasks, o \in AnswerOrders : GetPortSweep(t, o)
    \/ \E t \in Tasks : GetPortCache(t)
    \/ \E t \in Tasks : StopLock(t)
    \/ \E t \in Tasks, o \in HttpOutcomes : StopPost(t, o)
    \/ \E t \in Tasks : StopClear(t)
    \/ \E w \in WorkerIds, l \in StdoutLines : DrainRecv(w, l)
    \/ \E w \in WorkerIds : DrainStore(w)

SweepSpec == SweepInit /\ [][SweepNext]_vars

\* ---- properties ------------------------------------------------------------------
\* Tasks inside (or past) the stop primitive, and those whose stop has returned.
StopPcs == {"stop_post", "stop_clear"}
InStop(t) == task[t].pc \in StopPcs
StopReturned(t) ==
    \/ task[t].kind = "stop" /\ task[t].pc = "done"
    \/ task[t].kind = "exit" /\ task[t].pc \in {"exit_call", "done"}
StopReturning(t) == host' = "running" /\ task[t].pc = "stop_clear" /\ task'[t].pc # "stop_clear"

\* The holder of the lock waits for the lock it holds: nothing but the end of
\* the host releases it.
LockStuck == \E t \in Tasks : lock = {t} /\ task[t].pc = "stop_lock"

\* C1: of all exit-requested handlers of a run exactly one finds the flag
\* idle and starts the cleanup; the flag goes idle -> closing once, is never
\* reset, and a handler that finds it closing starts no stop sequence.
C1_OneWinner ==
    /\ [](started <= 1 /\ (CLOSING <=> started = 1))
    /\ [][CLOSING => (CLOSING' /\ started' = started
                      /\ \A k \in 1..MaxTriggers :
                            task[CleanupTask(k)].pc = "idle"
                            => task'[CleanupTask(k)].pc = "idle")]_vars

C1_Witness == host = "exited" /\ CLOSING /\ started = 1

\* C2: the host never exits while the stop sequence started by the winning
\* exit-requested handler has not returned.
C2_ExitAfterStop ==
    [][host' = "exited" =>
         \A k \in 1..started : task[CleanupTask(k)].pc \in {"exit_call", "done"}]_vars

\* C3: when the host exits at the end of the winning trigger's cleanup,
\* exactly one stop sequence has run and no worker is left running.
C3_OneStopNoLeak ==
    [][(host' = "exited" /\ \A k \in 1..started : task[CleanupTask(k)].pc = "done")
         => (started = 1 /\ \A w \in DOMAIN worker' : ~worker'[w].alive)]_vars

\* C4: once the stop invocations on one started worker have all returned,
\* exactly one of them has executed a termination attempt (shutdown request
\* or kill); the others have issued none.
C4_OneAttempt ==
    LET stops == {t \in Tasks : StopReturned(t)}
    IN (/\ host = "running"
        /\ Len(worker) = 1
        /\ \A t \in Tasks : ~InStop(t)
        /\ \E t \in stops : task[t].loc.process # {} \/ task[t].loc.pid # {})
       => Cardinality({t \in stops : task[t].did # {}}) = 1

\* C5: at the step in which a stop invocation returns, the handle has no
\* process, no port and no pid.
C5_StopLeavesNotRunning ==
    [][\A t \in Tasks : StopReturning(t) => server' = PythonServerNew]_vars

C5_Witness ==
    \E t \in Tasks :
        /\ StopReturned(t)
        /\ task[t].http = "error"
        /\ task[t].loc.process # {}
        /\ task[t].loc.port # {}

\* C6: a stop that has returned has returned Ok from the primitive, and the
\* stop command's envelope has success = true and no error.
C6_StopNeverFails ==
    \A t \in Tasks :
        StopReturned(t) =>
            /\ task[t].ret = "Ok"
            /\ task[t].kind = "stop" =>
                  \A r \in task[t].res : r.success /\ r.error = {} /\ r.data # {}
            /\ task[t].kind = "stop" => task[t].res # {}

C6_Witness ==
    \E t \in Tasks :
        task[t].kind = "stop" /\ task[t].pc = "done" /\ task[t].http = "status"

\* C7: a stop whose shutdown request errored has issued the forced
\* termination (tree kill of a recorded pid, kill of a held process handle)
\* by the time it returns.
C7_KillAfterFailedRequest ==
    \A t \in Tasks :
        (StopReturned(t) /\ task[t].http = "error") =>
            /\ task[t].loc.process # {} => "kill" \in task[t].did
            /\ task[t].loc.pid # {} => "kill_tree" \in task[t].did

\* C8: a stop that found process, port and pid all empty issues no request
\* and no process call, returns success and leaves the handle empty.
C8_StopOnEmptyIsNoop ==
    /\ [](\A t \in Tasks :
            (task[t].pc \in StopPcs \cup {"done", "exit_call"}
             /\ task[t].kind \in {"stop", "exit"}
             /\ task[t].loc = PythonServerNew)
            => /\ task[t].did = {}
               /\ task[t].http = "none"
               /\ task[t].pc # "stop_post"
               /\ StopReturned(t) => task[t].ret = "Ok")
    /\ [][\A t \in Tasks :
            (StopReturning(t) /\ task[t].loc = PythonServerNew)
            => server' = PythonServerNew]_vars

C8_Witness ==
    \E t \in Tasks :
        /\ task[t].kind = "stop"
        /\ task[t].pc = "done"
        /\ task[t].loc = PythonServerNew
        /\ worker = <<>>

\* C9: while the host runs there is never more than one live worker.
C9_AtMostOneWorker == host = "running" => Cardinality(Live) <= 1

\* No stop sequence has run so far.
NoStopRan ==
    \A t \in Tasks : ~InStop(t) /\ ~StopReturned(t) /\ task[t].ret = "none"

\* C10: with no stop having run, a getPort invoked after the worker's marker
\* line with port p has been read returns success with p, and it is never
\* left unable to return because the lock can no longer be acquired.
C10_GetPortReturnsMarker ==
    (host = "running" /\ Len(worker) = 1 /\ NoStopRan) =>
        /\ \A t \in Tasks :
              (task[t].kind = "getPort" /\ task[t].pc = "done" /\ task[t].after # {})
              => task[t].res = {PortKnown(task[t].after)}
        /\ MarkersEmitted # {} => ~LockStuck

\* The step in which the drain reads a line, and the one in which it stores.
DrainReads == eol = "ended" /\ eol' = "read"
DrainStores(w) == worker[w].dpc = "store" /\ worker'[w].dpc = "recv"

\* C11: between two lines, the port-ready events emitted so far are exactly
\* the ports parsed so far, one event per parsed marker line, in order.
C11_EventOncePerMarker ==
    (\A w \in Workers : worker[w].dpc = "recv") => events = parsed

\* The digits right after the first marker (whitespace between them allowed)
\* when they are a 16-bit number and the token ends there: at the end of the
\* line or at one of the pieces in enders.
TokenPort(l, enders) ==
    {l[j].v : j \in {j \in 1..Len(l) :
        /\ l[j].k = "num"
        /\ l[j].v <= U16Max
        /\ (j = Len(l) \/ l[j + 1] \in enders)
        /\ \E i \in 1..(j - 1) :
              /\ l[i] = Mk
              /\ \A h \in 1..(i - 1) : l[h] # Mk
              /\ \A h \in (i + 1)..(j - 1) : l[h] = Ws}}

\* The first whitespace-separated token after the first marker, as a port.
ClaimedPort(l) == TokenPort(l, {Ws})

\* The first whitespace-separated token of the text between the first marker
\* and the next marker (or the end of the line), as a port.
SplitPort(l) == TokenPort(l, {Ws, Mk})

\* C19 (as stated): a line makes the drain emit the event and store p exactly
\* when the first whitespace-separated token after the first marker is a
\* 16-bit number p; any other line emits nothing and leaves the stored port.
C19_ParseIffMarkerToken ==
    /\ [][DrainReads =>
            \A w \in Workers :
               IF ClaimedPort(text) # {}
               THEN /\ events' = Append(events, TheOne(ClaimedPort(text)))
                    /\ worker'[w].dpc = "store"
                    /\ worker'[w].dport = ClaimedPort(text)
               ELSE /\ events' = events
                    /\ worker'[w].dpc = "recv"
                    /\ server' = server]_vars
    /\ [][\A w \in Workers : DrainStores(w) => server'.port = worker[w].dport]_vars

\* C19 (amended): the same with the token taken from the text between the
\* first marker and the next marker or the end of the line; the store
\* happens when the drain gets the lock.
C19_ParseIffSplitToken ==
    /\ [][DrainReads =>
            \A w \in Workers :
               IF SplitPort(text) # {}
               THEN /\ events' = Append(events, TheOne(SplitPort(text)))
                    /\ worker'[w].dpc = "store"
                    /\ worker'[w].dport = SplitPort(text)
               ELSE /\ events' = events
                    /\ worker'[w].dpc = "recv"
                    /\ server' = server]_vars
    /\ [][\A w \in Workers :
            DrainStores(w) =>
               /\ server'.port = worker[w].dport
               /\ \A e \in 1..Len(events') : e > Len(events) =>
                     {events'[e]} = worker[w].dport]_vars

C19_Witness ==
    /\ eol = "read"
    /\ text = <<Mk, Num(U16Max), Mk>>
    /\ server.port = {U16Max}
    /\ events # <<>>

\* C20: after each store of the drain the stored port is the port of the
\* most recent parsed marker, whatever was stored before.
C20_LastWriteWins ==
    /\ [][\A w \in Workers :
            DrainStores(w) => server'.port = {parsed[Len(parsed)]}]_vars
    /\ []((parsed # <<>> /\ \A w \in Workers : worker[w].dpc = "recv")
            => server.port = {parsed[Len(parsed)]})

C20_Witness ==
    /\ Len(parsed) = 2
    /\ parsed[1] # parsed[2]
    /\ server.port = {parsed[2]}
    /\ \A w \in Workers : worker[w].dpc = "recv"

\* C12: a getPort that returned success carries a port; one that returned
\* failure returned PortUnknown, and it did so from the sweep with no probe
\* answered, the sweep being entered only from the re-check with the stored
\* port unknown and the re-check only from the first check with it unknown.
C12_PortUnknownOnlyAfterAll ==
    /\ [](\A t \in Tasks :
            (task[t].kind = "getPort" /\ task[t].pc = "done") =>
               /\ task[t].res # {}
               /\ \A r \in task[t].res :
                     IF r.success THEN r.data # {} /\ r.error = {}
                     ELSE r = PortUnknown /\ "answered" \notin task[t].did)
    /\ [][\A t \in Tasks :
            /\ (task'[t].res = {PortUnknown} /\ task[t].res # {PortUnknown})
                  => task[t].pc = "gp_sweep"
            /\ (task'[t].pc = "gp_sweep" /\ task[t].pc # "gp_sweep")
                  => (task[t].pc = "gp_check2" /\ server.port = {} /\ lock = {})
            /\ (task'[t].pc = "gp_check2" /\ task[t].pc # "gp_check2")
                  => (task[t].pc = "idle" /\ server.port = {} /\ lock = {})]_vars

C12_Witness ==
    \E t \in Tasks :
        /\ task[t].kind = "getPort"
        /\ task[t].res = {PortUnknown}
        /\ Live # {}

\* Task t is inside a section of code that runs with the guard it took.
InGuarded(t) ==
    \/ task[t].pc \in {"start_spawn", "stop_post", "stop_clear", "st_probe"}
    \/ task[t].kind = "start" /\ task[t].pc = "stop_lock"

\* C13: a task inside a guarded section is the one holder of the lock; the
\* handle changes only in a step of the holder or in a step that starts
\* with the lock free; a getPort answer and a stop's snapshot are the whole
\* handle as it is in a step that starts with the lock free.
C13_HandleUnderLock ==
    /\ [](\A t \in Tasks : InGuarded(t) => lock = {t})
    /\ [][(host' = "running" /\ server' # server) =>
            (lock = {} \/ \E t \in Tasks : lock = {t} /\ task'[t] # task[t])]_vars
    /\ [][host' = "running" =>
            \A t \in Tasks :
               /\ (task[t].pc \in {"idle", "gp_check2"} /\ task'[t].pc = "done")
                     => (lock = {} /\ task'[t].res = {PortKnown(server.port)})
               /\ (task[t].pc \in {"idle", "stop_lock"} /\ task'[t].pc \in StopPcs)
                     => (lock = {} /\ task'[t].loc = server)
               /\ (task[t].pc = "idle" /\ task'[t].pc = "st_probe")
                     => (lock = {} /\ task'[t].loc.process = server.process
                                   /\ task'[t].loc.pid = server.pid)]_vars

C13_Witness ==
    \E t \in Tasks, w \in Workers :
        /\ task[t].pc \in {"st_probe", "stop_post"}
        /\ lock = {t}
        /\ worker[w].dpc = "store"

\* C16: checkStatus probes the stored port if known, else the hint if it is
\* a 16-bit number, else 5000; its envelope says reachable exactly for a
\* success status, Unreachable for an error or timeout and UnhealthyResponse
\* for another status; no step of it changes the handle.
C16_StatusProbe ==
    /\ [](\A t \in Tasks :
            (task[t].kind = "status" /\ task[t].pc = "done") =>
               \E r \in task[t].res :
                  /\ task[t].res = {r}
                  /\ r.data = {task[t].http = "ok"}
                  /\ r.success = (task[t].http = "ok")
                  /\ task[t].http = "ok" => r.error = {}
                  /\ task[t].http = "error" => r.error = {"Cannot connect to server"}
                  /\ task[t].http = "status" => r.error = {"Server response error"})
    /\ [][host' = "running" =>
            \A t \in Tasks :
               /\ (task[t].pc = "idle" /\ task'[t].pc = "st_probe") =>
                     /\ server' = server
                     /\ task'[t].loc.port =
                           IF server.port # {} THEN server.port
                           ELSE IF \E n \in hint' : n \in 0..U16Max THEN hint'
                           ELSE {DefaultPort}
               /\ (task[t].pc = "st_probe" /\ task'[t].pc = "done") =>
                     /\ server' = server
                     /\ task'[t].http # "error" => Listening(task[t].loc.port) # {}]_vars

C16_Witness ==
    \E t \in Tasks :
        /\ task[t].kind = "status"
        /\ task[t].pc = "done"
        /\ task[t].http = "ok"
        /\ task[t].loc.port = {5001}
        /\ hint = {5001}
        /\ server.port = {}

\* C17: no start and no stop is ever left waiting for the lock in a state in
\* which the lock can never become free: held by the very task that waits.
C17_NoSelfWait ==
    \A t \in Tasks : task[t].pc = "stop_lock" => lock # {t}

\* C18: while a stop's shutdown request is in flight the handle is already
\* cleared and the lock is free for status and port queries.
C18_ClearedUpFront ==
    \A t \in Tasks :
        task[t].pc = "stop_post" => (server = PythonServerNew /\ lock = {})

\* The step of a write that rotates, and the step that appends after it.
Rotates(w) == logpc[w] = "check" /\ logpc'[w] = "append" /\ needs_rotation(files)
AppendsAfterRotation(w) == logpc[w] = "append" /\ logpc'[w] = "sample" /\ rotated[w]

Backups == 1..MAX_LOG_BACKUP_COUNT

C15_ChainBounded ==
    /\ [](/\ ~Exists(files, MAX_LOG_BACKUP_COUNT + 1)
          /\ Cardinality({i \in FileIds \ {0} : Exists(files, i)}) <= MAX_LOG_BACKUP_COUNT)
    /\ [][((\E w \in Loggers : Rotates(w)) /\ \A i \in Backups : Exists(files, i)) =>
            /\ files'[MAX_LOG_BACKUP_COUNT] = files[MAX_LOG_BACKUP_COUNT - 1]
            /\ \A i \in FileIds : files'[i] # files[MAX_LOG_BACKUP_COUNT]]_vars

C15_Witness ==
    /\ \E w \in Loggers : rotated[w] /\ logpc[w] = "append"
    /\ \A i \in Backups : Exists(files, i)
    /\ MtimeOf(files, MAX_LOG_BACKUP_COUNT) = 1

\* C21: when the sweep found more than one answering port, getPort returns
\* the port whose probe answered first and caches that same port in the handle.
C21_FirstAnswerWins ==
    [][\A t \in Tasks :
          (task[t].pc = "gp_cache" /\ task'[t].pc = "done" /\ Len(task[t].order) > 1)
             => /\ task'[t].res = {PortKnown({Head(task[t].order)})}
                /\ server'.port = {Head(task[t].order)}]_vars

\* C22: the handle's process field is non-empty exactly when a spawn has
\* succeeded and no stop has completed since: it is empty at first, a
\* successful spawn fills it, nothing else fills it, and it is emptied by the
\* completion of a stop and by nothing else while the host runs.
C22_ProcessIffRunning ==
    /\ [](host = "running" /\ worker = <<>> => server.process = {})
    /\ [][host' = "running" =>
            /\ (Len(worker') > Len(worker)) => server'.process # {}
            /\ (server.process = {} /\ server'.process # {}) => Len(worker') > Len(worker)
            /\ (server.process # {} /\ server'.process = {}) =>
                   \E t \in Tasks : StopReturning(t)]_vars

\* A start invocation runs its body and returns in this step.
StartReturns(t) ==
    task[t].kind = "start" /\ task[t].pc = "start_spawn" /\ task'[t].pc = "done"

C24_StoragePathAlwaysPassed ==
    /\ [](\A w \in Workers : "DB_PATH" \in worker[w].env)
    /\ [][\A t \in Tasks :
            (StartReturns(t) /\ task'[t].res = {StartFailed("dir_fail")})
               => worker' = worker]_vars

\* C28: after a stop has completed and with no start after it (every state
\* of SweepSpec: it begins when a stop has returned and has no start), the
\* stored port stays unknown: no step of the stdout drain or of getPort
\* writes a port into the cleared handle.
C28_PortStaysCleared ==
    [][(host' = "running" /\ server.port = {}) => server'.port = {}]_vars

\* C27: once an exit-requested event has won the CLOSING flag the host
\* eventually exits, and the exit-requested event raised by the cleanup
\* task's exit(0) is not deferred again: its handler lets the host exit.
C27_ExitEventually ==
    /\ [](CLOSING => <>(host = "exited"))
    /\ [][(exitCalls > 0 /\ exitCalls' < exitCalls /\ CLOSING) => host' = "exited"]_vars

\* Logger w ends its entry in this step with the second of the clock a
\* multiple of ten: the cleanup scan runs.
Scans(w) ==
    logpc[w] = "sample" /\ logpc'[w] = "idle" /\ as_secs(now) % CleanupPeriod = 0

Deleted == {i \in FileIds : Exists(files, i) /\ ~Exists(files', i)}
Kept == {i \in FileIds : Exists(files', i)}

InEntry == {"check", "append", "sample"}

\* C26: the size test, rotation, append and cleanup of one entry are one critical
\* section: at most one logging task is inside it; the directory changes only
\* by a step of the task inside it; and every append puts one whole entry
\* into an active file that is below the ceiling (absent after a rotation),
\* touching no backup.
C26_OneCriticalSection ==
    /\ [](Cardinality({w \in Loggers : logpc[w] \in InEntry}) <= 1)
    /\ [][files' # files =>
            \E w \in Loggers :
               /\ logpc[w] \in InEntry
               /\ logpc'[w] # logpc[w]
               /\ \A v \in Loggers \ {w} : logpc[v] \notin InEntry]_vars
    /\ [][\A w \in Loggers :
            (logpc[w] = "append" /\ logpc'[w] = "sample") =>
               /\ SizeOf(files, 0) < MAX_LOG_FILE_SIZE
               /\ rotated[w] => ~Exists(files, 0)
               /\ SizeOf(files', 0) = SizeOf(files, 0) + entry[w]
               /\ TheOne(files'[0]).n = (IF Exists(files, 0) THEN TheOne(files[0]).n ELSE 0) + 1
               /\ \A i \in FileIds \ {0} : files'[i] = files[i]]_vars

C26_Witness ==
    \E w, v \in Loggers :
        /\ logpc[w] = "append"
        /\ rotated[w]
        /\ logpc[v] = "lock"

\* C29: the cleanup that follows the append of an entry never deletes the
\* active file while a numbered backup remains, and the active file with the
\* entry just appended is still there after it.
C29_ActiveSurvivesCleanup ==
    [][\A w \in Loggers :
          (logpc[w] = "sample" /\ logpc'[w] = "idle") =>
             /\ (\E i \in Backups : Exists(files', i)) => Exists(files', 0)
             /\ files'[0] = files[0]]_vars

====
